---- MODULE Spec2Model ----
(***************************************************************************)
(* A model of the dlisio core (python/dlisio/core.cpp): the stream-level   *)
(* operations of `file` (sul, eof, mark, getrecord, eflr, close) over a    *)
(* byte-exact DLIS file, and the EFLR parser over an assembled payload.    *)
(*                                                                         *)
(* Files are sequences of bytes 0..255.  Stream positions are 0-based      *)
(* offsets, so the byte at offset p of file f is f[p + 1].                 *)
(***************************************************************************)
EXTENDS Integers, Sequences, FiniteSets, TLC

VARIABLES
    desc,       \* the description the file was generated from (never read by the code)
    bytes,      \* the bytes of the file
    open,       \* file::fp holds a stream
    pos,        \* the position of the stream
    phase,      \* where the caller is: "start", "scan", "indexed", "failed", ...
    residual,   \* the residual the caller got from its last call of mark
    marks,      \* the bookmarks the caller got so far
    traversed,  \* the bytes passed by the successful calls of mark
    ret,        \* what the last call returned or raised
    cat,        \* the payload handed to eflr()
    junk,       \* the bytes behind the payload that the parser has read
    ps          \* the state of eflr()

vars == <<desc, bytes, open, pos, phase, residual, marks, traversed, ret,
          cat, junk, ps>>

fileVars == <<desc, bytes, open, pos, phase, residual, marks, traversed, ret>>
eflrVars == <<cat, junk, ps>>

(***************************************************************************)
(* Bounds of the input enumeration.                                        *)
(***************************************************************************)
\* most logical record segments in one generated file
MaxSegs == 2
\* most bytes cut from the end of a generated file (truncation)
MaxCut == 1
\* most bytes by which a visible record label understates its content
MaxShort == 1
\* most bytes behind a payload that a parse may read before it faults
MaxJunk == 2
\* most object-phase components in one generated payload
MaxItems == 3
\* most bytes cut from the end of a generated payload
MaxTrunc == 1

(***************************************************************************)
(* Byte helpers.                                                           *)
(***************************************************************************)
Max(a, b) == IF a >= b THEN a ELSE b

\* big-endian unsigned 16 bit
U16(n) == <<n \div 256, n % 256>>

\* value of the bit `mask` (a power of two) in byte b
Bit(b, mask) == (b \div mask) % 2

\* size of the storage unit label read by file::storage_unit_label
SULSize == 80

\* size of a visible record label and of a logical record segment header
HeaderSize == 4

\* the storage unit label of scenario S1, "   1V1.00RECORD 8192" and the
\* identifier "storage-id" behind 50 blanks: one that dlis_sul decodes
SULBytes ==
    <<32, 32, 32, 49, 86, 49, 46, 48, 48, 82, 69, 67, 79, 82, 68, 32, 56, 49, 57, 50>>
        \o [i \in 1..(SULSize - 30) |-> 32]
        \o <<115, 116, 111, 114, 97, 103, 101, 45, 105, 100>>

\* visible record label: length, 0xFF, format version (spec 6.1, scenario S2)
VRLBytes(len) == U16(len) \o <<255, 1>>

\* logical record segment header: length, attributes, type (spec 6.1)
LRSHBytes(len, attrs, type) == U16(len) \o <<attrs, type>>

(***************************************************************************)
(* The files the model reads.  A file is described by its segments (the    *)
(* declared length, the attribute byte and the body of each), by the set   *)
(* of segments that open a new visible record, and by a malformation: a    *)
(* number of bytes cut from its end, or a visible record length that       *)
(* understates the record's content.                                       *)
(***************************************************************************)
\* a small explicitly formatted payload: SET, one template ATTRIB labelled
\* "A", one OBJECT (origin 1, copy 0, id "X") with one ATTRIB value "V"
PayloadOk == <<224, 48, 1, 65, 112, 1, 0, 1, 88, 33, 1, 86>>

\* an explicitly formatted payload that ends right after its SET component
PayloadSetOnly == <<224>>

Seg(attrs, body) == [len |-> HeaderSize + Len(body), attrs |-> attrs, body |-> body]

SegKinds ==
    { Seg(128, PayloadOk),                          \* EFLR, last of its chain
      Seg(128, PayloadSetOnly),                     \* EFLR, truncated payload
      Seg(32, <<7, 8>>),                            \* has_successor
      Seg(7, <<9, 0, 2, 201, 202, 203, 204>>),      \* checksum, trailing length, padding
      Seg(2, <<>>),                                 \* trailing length on an empty body
      Seg(144, PayloadOk),                          \* EFLR, is_encrypted
      [len |-> 0, attrs |-> 32, body |-> <<>>] }    \* has_successor, a header
                                                    \* that declares length 0

Malformations ==
    { [cut |-> c, short |-> 0] : c \in 0..MaxCut }
      \cup { [cut |-> 0, short |-> s] : s \in 0..MaxShort }

Descs ==
    { [segs |-> s, starts |-> st \cup {1}, mal |-> m] :
        s \in UNION { [1..n -> SegKinds] : n \in 1..MaxSegs },
        st \in SUBSET (2..MaxSegs),
        m \in Malformations }

ValidDesc(d) == \A i \in d.starts : i <= Len(d.segs)

\* the segment that opens the visible record holding segment i
VRStart(d, i) == CHOOSE j \in d.starts : j <= i /\ \A k \in d.starts : k <= i => k <= j

\* the segments of the visible record opened by segment i
VRSegs(d, i) == { j \in 1..Len(d.segs) : VRStart(d, j) = i }

RECURSIVE SumLen(_, _)
SumLen(d, S) ==
    IF S = {} THEN 0
    ELSE LET j == CHOOSE x \in S : TRUE IN d.segs[j].len + SumLen(d, S \ {j})

\* the length the label of the visible record opened by segment i declares
VRLen(d, i) == HeaderSize + SumLen(d, VRSegs(d, i)) - d.mal.short

RECURSIVE Serialise(_, _)
Serialise(d, i) ==
    IF i > Len(d.segs) THEN <<>>
    ELSE (IF i \in d.starts THEN VRLBytes(VRLen(d, i)) ELSE <<>>)
         \o LRSHBytes(d.segs[i].len, d.segs[i].attrs, 0)
         \o d.segs[i].body
         \o Serialise(d, i + 1)

FileBytes(d) ==
    LET whole == SULBytes \o Serialise(d, 1)
    IN  SubSeq(whole, 1, Len(whole) - d.mal.cut)

(***************************************************************************)
(* The layout of a described file, computed from the description and not   *)
(* by reading the bytes: where each label and header lies.                 *)
(***************************************************************************)
RECURSIVE SegOffset(_, _)
\* offset of the header of segment i
SegOffset(d, i) ==
    (IF i = 1 THEN SULSize
     ELSE SegOffset(d, i - 1) + HeaderSize + Len(d.segs[i - 1].body))
    + (IF i \in d.starts THEN HeaderSize ELSE 0)

\* offsets of the visible record labels
VRLOffsets(d) == { SegOffset(d, i) - HeaderSize : i \in d.starts }

\* offset one past the end of the visible record holding segment i
VREnd(d, i) ==
    LET j == VRStart(d, i) IN SegOffset(d, j) - HeaderSize + VRLen(d, j)

HasSuccessor(seg) == Bit(seg.attrs, 32) = 1

\* a well-formed file: nothing cut, every visible record as long as its
\* label says, every segment as long as its header says, and the last
\* logical record complete
WellFormed(d) ==
    /\ d.mal.cut = 0
    /\ d.mal.short = 0
    /\ \A i \in 1..Len(d.segs) : d.segs[i].len = HeaderSize + Len(d.segs[i].body)
    /\ ~HasSuccessor(d.segs[Len(d.segs)])

(***************************************************************************)
(* Reading the stream.  std::fread at or past the end reads nothing; a     *)
(* short read leaves the position at the end of the file.  std::fseek      *)
(* moves the position anywhere at or after offset 0, also past the end.    *)
(* Device failures (the io_error branch of getbytes) are not modelled.     *)
(***************************************************************************)
\* getbytes: nmemb bytes at offset p of f, or the end-of-file error
getbytes(f, p, nmemb) ==
    IF p + nmemb <= Len(f)
    THEN [ok |-> TRUE, data |-> SubSeq(f, p + 1, p + nmemb), pos |-> p + nmemb]
    ELSE [ok |-> FALSE, data |-> <<>>, pos |-> Max(p, Len(f))]

\* dlis_lrsh: length (big-endian u16), attributes, type
dlis_lrsh(b) == [len |-> b[1] * 256 + b[2], attrs |-> b[3], type |-> b[4]]

\* dlis_vrl: length (big-endian u16), 0xFF, version
dlis_vrl(b) == [len |-> b[1] * 256 + b[2], version |-> b[4]]

\* dlis_segment_attributes: the eight flags, most significant bit first
dlis_segment_attributes(attrs) ==
    [ explicit_formatting   |-> Bit(attrs, 128),
      has_predecessor       |-> Bit(attrs, 64),
      has_successor         |-> Bit(attrs, 32),
      is_encrypted          |-> Bit(attrs, 16),
      has_encryption_packet |-> Bit(attrs, 8),
      has_checksum          |-> Bit(attrs, 4),
      has_trailing_length   |-> Bit(attrs, 2),
      has_padding           |-> Bit(attrs, 1) ]

\* segment_header: read and decode one LRSH
segment_header(f, p) ==
    LET r == getbytes(f, p, HeaderSize)
    IN  IF r.ok THEN [ok |-> TRUE, seg |-> dlis_lrsh(r.data), pos |-> r.pos]
        ELSE [ok |-> FALSE, seg |-> [len |-> 0, attrs |-> 0, type |-> 0], pos |-> r.pos]

\* visible_length: read one VRL and return its length
visible_length(f, p) ==
    LET r == getbytes(f, p, HeaderSize)
    IN  IF r.ok THEN [ok |-> TRUE, len |-> dlis_vrl(r.data).len, pos |-> r.pos]
        ELSE [ok |-> FALSE, len |-> 0, pos |-> r.pos]

(***************************************************************************)
(* mark: the record indexer.  The two nested loops of the source are one   *)
(* recursion: with remaining > 0 the next four bytes are a segment header, *)
(* otherwise a visible record label.  mark.isexplicit is written by every  *)
(* segment read, so the bookmark returned carries the flag of the last     *)
(* one.  `seen` holds the loop states passed so far: a state met twice     *)
(* means the loop of the source never ends ("hang").  `trav` (the bytes    *)
(* of the labels, headers and bodies passed) and `low` (the lowest value   *)
(* remaining took after a segment was subtracted, 0 if none went below)    *)
(* are history values the code does not compute.                           *)
(***************************************************************************)
MarkFail(st, p, trav, low) ==
    [st |-> st, m |-> <<>>, residual |-> 0, pos |-> p, trav |-> trav, low |-> low]

\* seg.len -= 4: the bytes of a segment behind its header
SegBody(len) == len - HeaderSize

\* a visible record taken to hold its whole declared length behind the label
VRRemaining_whole(len) == len

\* remaining = visible_length( fp ) - 4: the bytes of a visible record
\* behind its label
VRRemaining(len) == len - HeaderSize

Min(a, b) == IF a <= b THEN a ELSE b

\* the value of a local the source assigns once
The(S) == CHOOSE x \in S : TRUE

RECURSIVE markloop(_, _, _, _, _, _, _)
\* the inner loop body, with the header h just read
markseg(f, m, h, rem2, p2, trav, low, seen) ==
    IF ~h.ok THEN MarkFail("EOFError", h.pos, trav, low)
    ELSE IF p2 < 0 THEN MarkFail("IOError", h.pos, trav + HeaderSize, low)
    ELSE IF dlis_segment_attributes(h.seg.attrs).has_successor = 0
    THEN [st |-> "ok",
          m |-> <<[pos |-> m.pos, residual |-> m.residual,
                   isexplicit |-> dlis_segment_attributes(h.seg.attrs).explicit_formatting]>>,
          residual |-> rem2, pos |-> p2,
          trav |-> trav + HeaderSize + SegBody(h.seg.len),
          low |-> Min(low, rem2)]
    ELSE markloop(f, m, p2, rem2, trav + HeaderSize + SegBody(h.seg.len),
                  Min(low, rem2), seen)

\* the outer loop body, with the visible record length v just read
markvrl(f, m, v, trav, low, seen) ==
    IF ~v.ok THEN MarkFail("EOFError", v.pos, trav, low)
    ELSE markloop(f, m, v.pos, VRRemaining(v.len), trav + HeaderSize, low, seen)

markloop(f, m, p, remaining, trav, low, seen) ==
    IF <<p, remaining>> \in seen THEN MarkFail("hang", p, trav, low)
    ELSE IF remaining > 0
    THEN The({ markseg(f, m, h, remaining - h.seg.len, h.pos + SegBody(h.seg.len),
                       trav, low, seen \cup {<<p, remaining>>}) :
               h \in {segment_header(f, p)} })
    ELSE The({ markvrl(f, m, v, trav, low, seen \cup {<<p, remaining>>}) :
               v \in {visible_length(f, p)} })

mark(f, p, remaining) ==
    markloop(f, [pos |-> p, residual |-> remaining], p, remaining, 0, 0, {})

(***************************************************************************)
(* catrecord: the record assembler.  Erasing more bytes than the vector    *)
(* holds and reading the pad count of an empty vector are undefined        *)
(* behaviour: the result "UB" stands for it and the caller picks the       *)
(* outcome.  A body length below zero (a header length under 4) is added   *)
(* to prevsize as a huge unsigned count: resize throws std::length_error   *)
(* (a ValueError in Python) when the vector holds fewer bytes than are     *)
(* missing, and shrinks the vector otherwise; std::fread is then asked for *)
(* the huge count and writes what is left of the file behind the vector,   *)
(* undefined behaviour unless nothing is left, and the short read ends in  *)
(* the end-of-file error.                                                  *)
(***************************************************************************)
CatFail(st, p) == [st |-> st, cat |-> <<>>, pos |-> p, residual |-> 0]

\* cat.erase( cat.end() - n, cat.end() )
EraseTail(c, n) == SubSeq(c, 1, Len(c) - n)

\* the erasures with the padding taken first: the pad count is read from
\* the last byte of the body, in front of which nothing was dropped yet
StripTail_padfirst(c, a) ==
    LET padbytes == IF Len(c) > 0 THEN c[Len(c)] ELSE 0
        ub3 == a.has_padding = 1 /\ (Len(c) = 0 \/ padbytes > Len(c))
        c1 == IF a.has_padding = 1 THEN EraseTail(c, padbytes) ELSE c
        ub1 == a.has_trailing_length = 1 /\ Len(c1) < 2
        c2 == IF a.has_trailing_length = 1 THEN EraseTail(c1, 2) ELSE c1
        ub2 == a.has_checksum = 1 /\ Len(c2) < 2
        c3 == IF a.has_checksum = 1 THEN EraseTail(c2, 2) ELSE c2
    IN  IF ub1 \/ ub2 \/ ub3 THEN [ub |-> TRUE, cat |-> <<>>]
        ELSE [ub |-> FALSE, cat |-> c3]

\* the three conditional erasures of one segment, in source order; the
\* empty tuple stands for undefined behaviour
StripTail(c, a) ==
    LET c1 == IF a.has_trailing_length = 1 THEN EraseTail(c, 2) ELSE c
        ub1 == a.has_trailing_length = 1 /\ Len(c) < 2
        c2 == IF a.has_checksum = 1 THEN EraseTail(c1, 2) ELSE c1
        ub2 == a.has_checksum = 1 /\ Len(c1) < 2
        padbytes == IF Len(c2) > 0 THEN c2[Len(c2)] ELSE 0
        ub3 == a.has_padding = 1 /\ (Len(c2) = 0 \/ padbytes > Len(c2))
        c3 == IF a.has_padding = 1 THEN EraseTail(c2, padbytes) ELSE c2
    IN  IF ub1 \/ ub2 \/ ub3 THEN [ub |-> TRUE, cat |-> <<>>]
        ELSE [ub |-> FALSE, cat |-> c3]

RECURSIVE catloop(_, _, _, _)
catloop(f, p, remaining, c) ==
    IF remaining > 0
    THEN The({
        IF ~h.ok THEN CatFail("EOFError", h.pos)
        ELSE IF remaining - h.seg.len < 0 THEN CatFail("ValueError", h.pos)
        ELSE IF SegBody(h.seg.len) < 0
        THEN IF Len(c) + SegBody(h.seg.len) < 0 THEN CatFail("ValueError", h.pos)
             ELSE IF h.pos >= Len(f) THEN CatFail("EOFError", h.pos)
             ELSE CatFail("UB", Len(f))
        ELSE The({
            IF ~r.ok THEN CatFail("EOFError", r.pos)
            ELSE The({
                IF s.ub THEN CatFail("UB", r.pos)
                ELSE IF dlis_segment_attributes(h.seg.attrs).has_successor = 0
                THEN [st |-> "ok", cat |-> s.cat, pos |-> r.pos,
                      residual |-> remaining - h.seg.len]
                ELSE catloop(f, r.pos, remaining - h.seg.len, s.cat) :
                s \in {StripTail(c \o r.data, dlis_segment_attributes(h.seg.attrs))} }) :
            r \in {getbytes(f, h.pos, SegBody(h.seg.len))} }) :
        h \in {segment_header(f, p)} })
    ELSE The({
        IF ~v.ok THEN CatFail("EOFError", v.pos)
        ELSE catloop(f, v.pos, VRRemaining(v.len), c) :
        v \in {visible_length(f, p)} })

catrecord(f, p, remaining) == catloop(f, p, remaining, <<>>)

(***************************************************************************)
(* The primitive decoders (typeconv.cpp) over a memory image `mem` and a   *)
(* 0-based cursor.  None of them is given the end of the payload; `ok` is  *)
(* FALSE when the decoder needs a byte past the end of the image.  A       *)
(* fixed-width number is kept as the bytes it was decoded from.            *)
(***************************************************************************)
Fault(cur) == [ok |-> FALSE, v |-> <<>>, cur |-> cur]

Skip(cur) == [ok |-> TRUE, v |-> <<>>, cur |-> cur]

\* n raw bytes
raw(mem, cur, n) ==
    IF cur + n <= Len(mem)
    THEN [ok |-> TRUE, v |-> SubSeq(mem, cur + 1, cur + n), cur |-> cur + n]
    ELSE Fault(cur)

\* USHORT: one unsigned byte
ushort(mem, cur) == raw(mem, cur, 1)

\* the failure of a decoder that began at cur, or its result r
OrFault(cur, r) == IF r.ok THEN r ELSE Fault(cur)

\* UVARI in two bytes: the low six bits of the first byte and the second
uvari2(cur, b, r) ==
    IF r.ok THEN [ok |-> TRUE, v |-> <<(b - 128) * 256 + r.v[2]>>, cur |-> r.cur]
    ELSE Fault(cur)

\* UVARI in four bytes
uvari4(cur, b, r) ==
    IF r.ok
    THEN [ok |-> TRUE,
          v |-> <<(b - 192) * 16777216 + r.v[2] * 65536 + r.v[3] * 256 + r.v[4]>>,
          cur |-> r.cur]
    ELSE Fault(cur)

\* UVARI: 1, 2 or 4 bytes by the top bits of the first byte b
uvari_of(mem, cur, b) ==
    IF b < 128 THEN [ok |-> TRUE, v |-> <<b>>, cur |-> cur + 1]
    ELSE IF b < 192 THEN uvari2(cur, b, raw(mem, cur, 2))
    ELSE uvari4(cur, b, raw(mem, cur, 4))

uvari(mem, cur) ==
    IF cur >= Len(mem) THEN Fault(cur) ELSE uvari_of(mem, cur, mem[cur + 1])

\* IDENT: a length byte and that many characters
ident(mem, cur) ==
    IF cur >= Len(mem) THEN Fault(cur)
    ELSE OrFault(cur, raw(mem, cur + 1, mem[cur + 1]))

\* ASCII: a UVARI length n and that many characters
ascii_of(mem, cur, n) ==
    IF ~n.ok THEN Fault(cur) ELSE OrFault(cur, raw(mem, n.cur, n.v[1]))

ascii(mem, cur) == ascii_of(mem, cur, uvari(mem, cur))

\* OBNAME: UVARI origin o, USHORT copy c, IDENT id i
obname_id(cur, o, c, i) ==
    IF ~i.ok THEN Fault(cur)
    ELSE [ok |-> TRUE, v |-> <<o.v[1], c.v[1], i.v>>, cur |-> i.cur]

obname_copy(mem, cur, o, c) ==
    IF ~c.ok THEN Fault(cur) ELSE obname_id(cur, o, c, ident(mem, c.cur))

obname_origin(mem, cur, o) ==
    IF ~o.ok THEN Fault(cur) ELSE obname_copy(mem, cur, o, ushort(mem, o.cur))

obname(mem, cur) == obname_origin(mem, cur, uvari(mem, cur))

\* representation codes (dlisio/types.h)
DLIS_UVARI == 18
DLIS_IDENT == 19
DLIS_ASCII == 20
DLIS_OBNAME == 23

\* the size of the fixed-width representation codes array() decodes; 0 for
\* a code array() does not decode
FixedWidth(reprc) ==
    CASE reprc \in {12, 15, 26} -> 1
      [] reprc \in {1, 13, 16} -> 2
      [] reprc \in {2, 5, 6, 14, 17} -> 4
      [] reprc \in {3, 7, 10, 21} -> 8
      [] reprc = 4 -> 12
      [] reprc \in {8, 11} -> 16
      [] reprc = 9 -> 24
      [] OTHER -> 0

\* an OBNAME as an element of a list: origin, copy and the characters
obname_flat(cur, o) ==
    IF o.ok THEN [ok |-> TRUE, v |-> <<o.v[1], o.v[2]>> \o o.v[3], cur |-> o.cur]
    ELSE Fault(cur)

\* one element of array(): the switch over the representation code
element(mem, cur, reprc) ==
    CASE reprc = DLIS_UVARI -> uvari(mem, cur)
      [] reprc = DLIS_IDENT -> ident(mem, cur)
      [] reprc = DLIS_ASCII -> ascii(mem, cur)
      [] reprc = DLIS_OBNAME -> obname_flat(cur, obname(mem, cur))
      [] OTHER -> raw(mem, cur, FixedWidth(reprc))

KnownReprc(reprc) ==
    reprc \in {DLIS_UVARI, DLIS_IDENT, DLIS_ASCII, DLIS_OBNAME} \/ FixedWidth(reprc) > 0

\* array: count elements of one representation code, in order; the code
\* is looked at once per element, so a count of 0 never rejects it.  What
\* it returns is a py::list (list), whatever the count
RECURSIVE arrayloop(_, _, _, _, _)
RECURSIVE arraynext(_, _, _, _, _)

arraynext(mem, count, reprc, l, e) ==
    IF ~e.ok THEN [st |-> "fault", v |-> <<>>, cur |-> e.cur]
    ELSE arrayloop(mem, e.cur, count - 1, reprc, Append(l, [reprc |-> reprc, v |-> e.v]))

arrayloop(mem, cur, count, reprc, l) ==
    IF count <= 0 THEN [st |-> "ok", v |-> l, cur |-> cur, list |-> TRUE]
    ELSE IF ~KnownReprc(reprc) THEN [st |-> "UnknownReprc", v |-> <<>>, cur |-> cur]
    ELSE arraynext(mem, count, reprc, l, element(mem, cur, reprc))

array(mem, cur, count, reprc) == arrayloop(mem, cur, count, reprc, <<>>)

(***************************************************************************)
(* The component decoder (dlis_component and friends, spec 4.2 and 6.1):   *)
(* the role is the top three bits of the descriptor, the flags the rest.   *)
(***************************************************************************)
DLIS_ROLE_ABSATR == 0
DLIS_ROLE_ATTRIB == 1
DLIS_ROLE_INVATR == 2
DLIS_ROLE_OBJECT == 3
DLIS_ROLE_RESERV == 4
DLIS_ROLE_RDSET == 5
DLIS_ROLE_RSET == 6
DLIS_ROLE_SET == 7

dlis_component(d) == d \div 32

dlis_component_set(d) == [type |-> Bit(d, 16), name |-> Bit(d, 8)]

dlis_component_attrib(d) ==
    [ label |-> Bit(d, 16), count |-> Bit(d, 8), reprc |-> Bit(d, 4),
      units |-> Bit(d, 2), value |-> Bit(d, 1) ]

(***************************************************************************)
(* The EFLR parser, eflr(), one component per step.                        *)
(*                                                                         *)
(* Every column is a py::dict, a handle to a dictionary on the Python      *)
(* heap: `heap` is that heap, and the template, the invariants and the     *)
(* rows are sequences of indices into it.  Copying a std::vector of        *)
(* py::dict copies the handles.  The parser reads the memory image `mem`   *)
(* (the payload followed by whatever lies behind it) and knows the         *)
(* payload's length `end` only where the source compares cur with end.     *)
(*                                                                         *)
(* `maxread` (the bytes of the image touched so far), `decl` (the columns  *)
(* as the template declared them), the `given` of a stored object (the     *)
(* components it carried) and its `shown` (the columns of its row as they  *)
(* were when the row was stored) are history fields: the parser never      *)
(* reads them.                                                             *)
(***************************************************************************)
ParserIdle ==
    [ phase |-> "idle", err |-> "none", cur |-> 0, maxread |-> 0,
      type |-> <<>>, name |-> <<>>, heap |-> <<>>,
      attribute |-> <<>>, invariant |-> <<>>, objects |-> <<>>,
      oname |-> <<>>, row |-> <<>>, col |-> 0, warnings |-> 0, decl |-> <<>> ]

ParserStart == [ParserIdle EXCEPT !.phase = "set"]

\* the parse threw: no record is returned
\* (cur is the cursor and read the extent of the image touched by then)
Throw(p, e, cur, read) ==
    [p EXCEPT !.phase = "error", !.err = e, !.cur = cur, !.maxread = Max(@, read)]

\* the step needs a byte that lies past the end of the memory image
NeedMore(p) == [p EXCEPT !.phase = "error", !.err = "fault"]

\* py::dict col( "count"_a = 1, "reprc"_a = DLIS_IDENT, "value"_a = py::none() )
DefaultColumn ==
    [label |-> <<>>, count |-> 1, reprc |-> DLIS_IDENT, units |-> <<>>, value |-> <<>>]

\* a field decoder failed on the decode state s
FieldFault(s) == [s EXCEPT !.st = "fault"]

\* col["label"] = ident( cur ), or, in an object, ident( cur ) alone
label_put(s, r, keep) ==
    IF ~r.ok THEN FieldFault(s)
    ELSE [s EXCEPT !.cur = r.cur, !.col.label = IF keep THEN r.v ELSE @]

label_field(mem, s, f, keep) ==
    IF f.label = 0 THEN s ELSE label_put(s, ident(mem, s.cur), keep)

\* if( count ) col["count"] = uvari( cur )
count_put(s, r) ==
    IF ~r.ok THEN FieldFault(s) ELSE [s EXCEPT !.cur = r.cur, !.col.count = r.v[1]]

count_field(mem, s, f) ==
    IF f.count = 0 \/ s.st # "ok" THEN s ELSE count_put(s, uvari(mem, s.cur))

\* if( reprc ) col["reprc"] = ushort( cur )
reprc_put(s, r) ==
    IF ~r.ok THEN FieldFault(s) ELSE [s EXCEPT !.cur = r.cur, !.col.reprc = r.v[1]]

reprc_field(mem, s, f) ==
    IF f.reprc = 0 \/ s.st # "ok" THEN s ELSE reprc_put(s, ushort(mem, s.cur))

\* if( units ) col["units"] = ident( cur )
units_put(s, r) ==
    IF ~r.ok THEN FieldFault(s) ELSE [s EXCEPT !.cur = r.cur, !.col.units = <<r.v>>]

units_field(mem, s, f) ==
    IF f.units = 0 \/ s.st # "ok" THEN s ELSE units_put(s, ident(mem, s.cur))

\* if( value ) col["value"] = array( col["count"], col["reprc"], cur ):
\* the column holds the Python object array() returned, a list of elements
\* or one bare element
value_put(s, a) ==
    IF a.st # "ok" THEN [s EXCEPT !.st = a.st, !.cur = a.cur]
    ELSE [s EXCEPT !.cur = a.cur, !.col.value = <<[list |-> a.list, v |-> a.v]>>]

value_field(mem, s, f) ==
    IF f.value = 0 \/ s.st # "ok" THEN s
    ELSE value_put(s, array(mem, s.cur, s.col.count, s.col.reprc))

\* the flagged fields of an attribute component, decoded in the order
\* label, count, reprc, units, value onto the column `col`.  In the template
\* the label is kept (keep); in an object it is decoded and dropped.
attrfields(mem, cur, f, col, keep) ==
    value_field(mem,
        units_field(mem,
            reprc_field(mem,
                count_field(mem,
                    label_field(mem, [st |-> "ok", cur |-> cur, col |-> col], f, keep),
                    f),
                f),
            f),
        f)

\* if( set.type ) record["type"] = ident( cur )
set_type(p, mem, flags, cur) ==
    IF flags.type = 1 THEN ident(mem, cur) ELSE Skip(cur)

\* if( set.name ) record["name"] = ident( cur )
set_name(p, mem, flags, t) ==
    IF ~t.ok THEN t ELSE IF flags.name = 1 THEN ident(mem, t.cur) ELSE Skip(t.cur)

set_put(p, flags, t, n) ==
    IF ~t.ok \/ ~n.ok THEN NeedMore(p)
    ELSE [p EXCEPT !.phase = "template", !.cur = n.cur, !.maxread = Max(@, n.cur),
                   !.type = IF flags.type = 1 THEN <<t.v>> ELSE <<>>,
                   !.name = IF flags.name = 1 THEN <<n.v>> ELSE <<>>]

set_fields(p, mem, flags, t) == set_put(p, flags, t, set_name(p, mem, flags, t))

\* set_attributes: the role must be one of the three set roles
set_attributes(p, mem, d) ==
    IF ~d.ok THEN NeedMore(p)
    ELSE IF dlis_component(d.v[1]) \notin {DLIS_ROLE_RDSET, DLIS_ROLE_RSET, DLIS_ROLE_SET}
    THEN Throw(p, "ExpectedSet", d.cur, d.cur)
    ELSE set_fields(p, mem, dlis_component_set(d.v[1]),
                    set_type(p, mem, dlis_component_set(d.v[1]), d.cur))

\* eflr(), from its first line to the call of eflr_template: the set
\* component, set_attributes() and the optional type and name
set_step(p, mem) == set_attributes(p, mem, raw(mem, p.cur, 1))

\* cols.attribute.push_back( col ) or cols.invariant.push_back( col )
template_put(p, role, a) ==
    IF a.st = "fault" THEN NeedMore(p)
    ELSE IF a.st # "ok" THEN Throw(p, a.st, a.cur, a.cur)
    ELSE [p EXCEPT !.cur = a.cur, !.maxread = Max(@, a.cur),
                   !.heap = Append(@, a.col),
                   !.attribute = IF role = DLIS_ROLE_ATTRIB
                                 THEN Append(@, Len(p.heap) + 1) ELSE @,
                   !.invariant = IF role = DLIS_ROLE_ATTRIB
                                 THEN @ ELSE Append(@, Len(p.heap) + 1)]

template_component(p, mem, d, role, flags) ==
    IF role = DLIS_ROLE_OBJECT
    THEN [p EXCEPT !.phase = "objects", !.maxread = Max(@, d.cur), !.decl = p.heap]
    ELSE IF role \notin {DLIS_ROLE_ATTRIB, DLIS_ROLE_INVATR}
    THEN Throw(p, "ExpectedAttribute", p.cur, d.cur)
    ELSE IF flags.label = 0 THEN Throw(p, "MissingLabel", d.cur, d.cur)
    ELSE template_put(p, role, attrfields(mem, d.cur, flags, DefaultColumn, TRUE))

template_descriptor(p, mem, d) ==
    IF ~d.ok THEN NeedMore(p)
    ELSE template_component(p, mem, d, dlis_component(d.v[1]),
                            dlis_component_attrib(d.v[1]))

\* one turn of the loop of eflr_template
template_step(p, mem) == template_descriptor(p, mem, raw(mem, p.cur, 1))

\* auto row = tmpl.attribute
object_put(p, name) ==
    IF ~name.ok THEN NeedMore(p)
    ELSE [p EXCEPT !.phase = "row", !.cur = name.cur, !.maxread = Max(@, name.cur),
                   !.oname = name.v, !.row = p.attribute, !.col = 1]

\* the head of an object that takes a component of any role for an OBJECT
object_descriptor_anyrole(p, mem, d) ==
    IF ~d.ok THEN NeedMore(p)
    ELSE object_put(p, obname(mem, d.cur))

object_descriptor(p, mem, d) ==
    IF ~d.ok THEN NeedMore(p)
    ELSE IF dlis_component(d.v[1]) # DLIS_ROLE_OBJECT
    THEN Throw(p, "ExpectedObject", d.cur, d.cur)
    ELSE object_put(p, obname(mem, d.cur))

\* one turn of the object loop of eflr(), up to the copy of the template
\* into the row; at cur == end the record is complete
object_step(p, mem, end) ==
    IF p.cur = end THEN [p EXCEPT !.phase = "done"]
    ELSE object_descriptor(p, mem, raw(mem, p.cur, 1))

\* objects[ py::make_tuple( name ) ] = row: a key already present keeps
\* its place and takes the new row
StoreRow(objects, e) ==
    IF \E i \in 1..Len(objects) : objects[i].name = e.name
    THEN [i \in 1..Len(objects) |-> IF objects[i].name = e.name THEN e ELSE objects[i]]
    ELSE Append(objects, e)

\* the end of a row that stores the row without the invariant columns
row_end_bare(p, peeked) ==
    [p EXCEPT !.phase = "objects", !.maxread = Max(@, peeked),
              !.objects = StoreRow(@, [name |-> p.oname, row |-> p.row,
                                       given |-> p.col - 1,
                                       shown |-> [i \in 1..Len(p.row) |-> p.heap[p.row[i]]]]),
              !.row = <<>>, !.col = 0, !.oname = <<>>]

\* the end of a row: the invariant columns are appended and the row stored
row_end(p, peeked) ==
    [p EXCEPT !.phase = "objects", !.maxread = Max(@, peeked),
              !.objects = StoreRow(@, [name |-> p.oname,
                                       row |-> p.row \o p.invariant,
                                       given |-> p.col - 1,
                                       shown |-> [i \in 1..Len(p.row \o p.invariant) |->
                                                     p.heap[(p.row \o p.invariant)[i]]]]),
              !.row = <<>>, !.col = 0, !.oname = <<>>]

\* the fields of an ATTRIB component written onto the column of the row
row_put(p, ref, flags, a) ==
    IF a.st = "fault" THEN NeedMore(p)
    ELSE IF a.st # "ok" THEN Throw(p, a.st, a.cur, a.cur)
    ELSE [p EXCEPT !.cur = a.cur, !.maxread = Max(@, a.cur), !.col = @ + 1,
                   !.heap[ref] = a.col,
                   !.warnings = @ + flags.label]

row_component(p, mem, d, role, flags, ref) ==
    IF role = DLIS_ROLE_OBJECT THEN row_end(p, d.cur)
    ELSE IF role \notin {DLIS_ROLE_ATTRIB, DLIS_ROLE_ABSATR}
    THEN Throw(p, "ExpectedAttribute", p.cur, d.cur)
    ELSE IF role = DLIS_ROLE_ABSATR
    THEN [p EXCEPT !.cur = d.cur, !.maxread = Max(@, d.cur), !.col = @ + 1,
                   !.heap[ref].value = <<>>]
    ELSE row_put(p, ref, flags, attrfields(mem, d.cur, flags, p.heap[ref], FALSE))

row_descriptor(p, mem, d) ==
    IF ~d.ok THEN NeedMore(p)
    ELSE row_component(p, mem, d, dlis_component(d.v[1]),
                       dlis_component_attrib(d.v[1]), p.row[p.col])

\* one turn of the column loop of eflr()
row_step(p, mem, end) ==
    IF p.col > Len(p.row) THEN row_end(p, p.cur)
    ELSE IF p.cur = end THEN row_end(p, p.cur)
    ELSE row_descriptor(p, mem, raw(mem, p.cur, 1))

\* one step of the parser
step(p, mem, end) ==
    CASE p.phase = "set" -> set_step(p, mem)
      [] p.phase = "template" -> template_step(p, mem)
      [] p.phase = "objects" -> object_step(p, mem, end)
      [] p.phase = "row" -> row_step(p, mem, end)
      [] OTHER -> p

\* eflr(): the parser run to its end over a given memory image
RECURSIVE eflr_run(_, _, _)
eflr_run(p, mem, end) ==
    IF p.phase \in {"done", "error"} THEN p
    ELSE The({ eflr_run(q, mem, end) : q \in {step(p, mem, end)} })

\* the columns a sequence of handles shows, read off the heap
Columns(p, refs) == [i \in 1..Len(refs) |-> p.heap[refs[i]]]

\* the record eflr() returns, as Python sees it once the parse is done
Record(p) ==
    [ type |-> p.type, name |-> p.name,
      template_attribute |-> Columns(p, p.attribute),
      template_invariant |-> Columns(p, p.invariant),
      objects |-> [i \in 1..Len(p.objects) |->
                      [name |-> p.objects[i].name,
                       row |-> Columns(p, p.objects[i].row)]] ]

\* what a call of eflr() amounts to: a record, an exception, or a crash
\* when the parse ran off the memory image
Outcome(p) ==
    IF p.phase = "done" THEN [st |-> "ok", rec |-> <<Record(p)>>]
    ELSE IF p.err = "fault" THEN [st |-> "crash", rec |-> <<>>]
    ELSE [st |-> p.err, rec |-> <<>>]

eflr(c, tail) ==
    The({ Outcome(p) : p \in {eflr_run(ParserStart, c \o tail, Len(c))} })

(***************************************************************************)
(* What lies behind a payload in memory is not the program's to choose:    *)
(* a read past the end yields any byte, or faults.                         *)
(***************************************************************************)
JunkBytes == {0, 48, 112}

JunkTails == [1..MaxJunk -> JunkBytes]

\* what a call may do once the assembler's behaviour is undefined: crash
\* the process, or return whatever buffer the corrupted vector holds
GarbageBufs == {<<>>, <<0>>}

(***************************************************************************)
(* The operations of `file`, as the Python caller sees them.               *)
(***************************************************************************)
Ret(op, st) ==
    [op |-> op, st |-> st, bm |-> <<>>, res |-> 0, low |-> 0, buf |-> <<>>, rec |-> <<>>]

\* a conversion to std::FILE* that hands out the null pointer unchecked
Closed_unchecked(op) == Ret(op, "ok")

\* operator std::FILE*() of a closed file
Closed(op) == Ret(op, "ValueError")

Init ==
    /\ desc \in { d \in Descs : ValidDesc(d) }
    /\ bytes = FileBytes(desc)
    /\ open = TRUE
    /\ pos = 0
    /\ phase = "start"
    /\ residual = 0
    /\ marks = <<>>
    /\ traversed = 0
    /\ ret = Ret("open", "ok")
    /\ cat = <<>>
    /\ junk = <<>>
    /\ ps = ParserIdle

Running == phase \in {"start", "scan", "indexed", "failed"}

\* file::storage_unit_label (the fields of the label are not decoded)
storage_unit_label ==
    /\ phase = "start" \/ (~open /\ Running)
    /\ IF ~open
       THEN /\ ret' = Closed("sul")
            /\ UNCHANGED <<pos, phase>>
       ELSE LET r == getbytes(bytes, pos, SULSize)
            IN  /\ pos' = r.pos
                /\ ret' = Ret("sul", IF r.ok THEN "ok" ELSE "EOFError")
                /\ phase' = IF r.ok THEN "scan" ELSE "failed"
    /\ UNCHANGED <<desc, bytes, open, residual, marks, traversed, cat, junk, ps>>

\* file::eof: fgetc and ungetc leave the position where it was
eof ==
    /\ phase \in {"scan", "indexed", "failed"} \/ (~open /\ Running)
    /\ IF ~open
       THEN /\ ret' = Closed("eof")
            /\ phase' = phase
       ELSE LET atend == pos >= Len(bytes)
            IN  /\ ret' = Ret("eof", IF atend THEN "true" ELSE "false")
                /\ phase' = IF phase = "scan" /\ atend THEN "indexed" ELSE phase
    /\ UNCHANGED <<desc, bytes, open, pos, residual, marks, traversed, cat, junk, ps>>

\* file::markrecord, called by the scanning caller with the residual of
\* its previous call
markrecord ==
    /\ phase = "scan" \/ (~open /\ Running)
    /\ IF ~open
       THEN /\ ret' = Closed("mark")
            /\ UNCHANGED <<pos, phase, residual, marks, traversed>>
       ELSE \E r \in {mark(bytes, pos, residual)} :
                /\ pos' = r.pos
                /\ ret' = [Ret("mark", r.st) EXCEPT !.bm = r.m, !.res = r.residual,
                                                    !.low = r.low]
                /\ phase' = CASE r.st = "ok" -> "scan"
                              [] r.st = "hang" -> "hung"
                              [] OTHER -> "failed"
                /\ residual' = IF r.st = "ok" THEN r.residual ELSE residual
                /\ marks' = IF r.st = "ok" THEN marks \o r.m ELSE marks
                /\ traversed' = IF r.st = "ok" THEN traversed + r.trav ELSE traversed
    /\ UNCHANGED <<desc, bytes, open, cat, junk, ps>>

\* what a call of catrecord may hand back: its result, or, once its
\* behaviour is undefined, a crash or some buffer
cat_outcomes(r) ==
    IF r.st = "UB"
    THEN {[st |-> "crash", buf |-> <<>>]} \cup {[st |-> "ok", buf |-> g] : g \in GarbageBufs}
    ELSE {[st |-> r.st, buf |-> r.cat]}

\* what a call of eflr() on the buffer c may hand back: one outcome when
\* the parse stays inside c, and otherwise a crash or the outcome over any
\* bytes behind c
eflr_outcomes(c) ==
    The({ IF inside.st # "crash" THEN {inside}
          ELSE {inside} \cup {eflr(c, j) : j \in JunkTails} :
          inside \in {eflr(c, <<>>)} })

\* file::getrecord on a bookmark the caller holds
getrecord ==
    /\ phase \in {"indexed", "failed"} \/ (~open /\ Running)
    /\ marks # <<>>
    /\ IF ~open
       THEN /\ ret' = Closed("getrecord")
            /\ UNCHANGED <<pos, phase>>
       ELSE \E i \in 1..Len(marks) :
              \E r \in {catrecord(bytes, marks[i].pos, marks[i].residual)} :
                 /\ pos' = r.pos
                 /\ \E o \in cat_outcomes(r) :
                       /\ phase' = IF o.st = "crash" THEN "crashed" ELSE phase
                       /\ ret' = [Ret("getrecord", o.st) EXCEPT
                                     !.bm = <<marks[i]>>, !.buf = o.buf]
    /\ UNCHANGED <<desc, bytes, open, residual, marks, traversed, cat, junk, ps>>

\* file::eflr on a bookmark the caller holds: catrecord, then eflr() on
\* the vector it returned
file_eflr ==
    /\ phase \in {"indexed", "failed"} \/ (~open /\ Running)
    /\ marks # <<>>
    /\ IF ~open
       THEN /\ ret' = Closed("eflr")
            /\ UNCHANGED <<pos, phase>>
       ELSE \E i \in 1..Len(marks) :
              \E r \in {catrecord(bytes, marks[i].pos, marks[i].residual)} :
                 /\ pos' = r.pos
                 /\ \E b \in cat_outcomes(r) :
                       \E o \in IF b.st = "ok" THEN eflr_outcomes(b.buf)
                                ELSE {[st |-> b.st, rec |-> <<>>]} :
                          /\ phase' = IF o.st = "crash" THEN "crashed" ELSE phase
                          /\ ret' = [Ret("eflr", o.st) EXCEPT
                                        !.bm = <<marks[i]>>, !.rec = o.rec]
    /\ UNCHANGED <<desc, bytes, open, residual, marks, traversed, cat, junk, ps>>

\* file::close: fp.reset() closes the stream, and with it the position in
\* it is gone; on a closed file it does nothing
close ==
    /\ Running
    /\ open' = FALSE
    /\ pos' = 0
    /\ ret' = Ret("close", "ok")
    /\ UNCHANGED <<desc, bytes, phase, residual, marks, traversed, cat, junk, ps>>

Next ==
    \/ storage_unit_label
    \/ eof
    \/ markrecord
    \/ getrecord
    \/ file_eflr
    \/ close

Spec == Init /\ [][Next]_vars


(***************************************************************************)
(* The scan loop of a caller that only indexes: the label, then eof and    *)
(* markrecord in turn.  The loop keeps calling until eof answers true, so  *)
(* the steps of the loop are taken as long as one of them is possible.     *)
(***************************************************************************)
ScanNext == storage_unit_label \/ eof \/ markrecord

LiveSpec == Init /\ [][ScanNext]_vars /\ WF_vars(ScanNext)

(***************************************************************************)
(* Properties of the framing layer                                         *)
(***************************************************************************)

\* the bookmark b lies where the description of the file puts a label or
\* a segment header, with the residual the description gives
BookmarkOk(d, b) ==
    IF b.residual = 0 THEN b.pos \in VRLOffsets(d)
    ELSE /\ b.residual > 0
         /\ \E k \in 1..Len(d.segs) :
               /\ SegOffset(d, k) = b.pos
               /\ b.residual = VREnd(d, k) - b.pos

\* C1: every bookmark index_next returns either has residual 0 and lies at
\* the first byte of a visible record label, or has a positive residual
\* equal to the bytes left in the open visible record and lies at the first
\* byte of a segment header; the new residual it returns is never negative.
C1_BookmarkInvariant ==
    /\ \A i \in 1..Len(marks) : BookmarkOk(desc, marks[i])
    /\ residual >= 0

\* the scan has passed the whole file behind the storage unit label
ScanComplete ==
    /\ phase \in {"scan", "indexed"}
    /\ pos = Len(bytes)
    /\ traversed = Len(bytes) - SULSize

\* C2: on a well-formed file, repeated index_next from offset 80 with the
\* returned residual reaches the end of the file after finitely many calls,
\* and the bytes traversed (labels, headers, bodies) sum to file size - 80.
C2_ScanTerminates == WellFormed(desc) => <>ScanComplete

\* C2, the case: a well-formed file of two visible records, indexed to its end
C2_Witness ==
    /\ WellFormed(desc)
    /\ Cardinality(desc.starts) = 2
    /\ Len(marks) = 2
    /\ phase = "indexed"
    /\ traversed = Len(bytes) - SULSize

\* the segment of the description a bookmark starts at
FirstSeg(d, b) ==
    CHOOSE k \in 1..Len(d.segs) :
        SegOffset(d, k) = (IF b.residual = 0 THEN b.pos + HeaderSize ELSE b.pos)

\* the last segment of the chain that starts at segment k
ChainEnd(d, k) ==
    IF \E j \in k..Len(d.segs) : ~HasSuccessor(d.segs[j])
    THEN CHOOSE j \in k..Len(d.segs) :
            ~HasSuccessor(d.segs[j]) /\ \A i \in k..(j - 1) : HasSuccessor(d.segs[i])
    ELSE Len(d.segs)

\* the pad count of a segment: the byte of its body in front of its
\* checksum and trailing length, 0 where the body holds no such byte
PadCount(seg) ==
    LET n == Len(seg.body) - 2 * Bit(seg.attrs, 2) - 2 * Bit(seg.attrs, 4)
    IN  IF Bit(seg.attrs, 1) = 1 /\ n >= 1 THEN seg.body[n] ELSE 0

\* what one segment adds to the composite length
Contribution(seg) ==
    (seg.len - HeaderSize) - 2 * Bit(seg.attrs, 2) - 2 * Bit(seg.attrs, 4)
        - PadCount(seg)

RECURSIVE CompositeLength(_, _, _)
CompositeLength(d, k, last) ==
    Contribution(d.segs[k]) + (IF k >= last THEN 0 ELSE CompositeLength(d, k + 1, last))

\* the named bookmark is one the description of the file accounts for
Accounted(d, bm) ==
    /\ Len(bm) = 1
    /\ \E k \in 1..Len(d.segs) :
          SegOffset(d, k) = (IF bm[1].residual = 0 THEN bm[1].pos + HeaderSize
                             ELSE bm[1].pos)

\* C3: for every bookmark index_next returned, assemble returns a buffer
\* whose length is the sum over the chain's segments of (len - 4), minus 2
\* per trailing length, minus 2 per checksum, minus the pad count of each
\* padded segment.
C3_CompositeLength ==
    (ret.op = "getrecord" /\ ret.st = "ok" /\ Accounted(desc, ret.bm))
        => LET k == FirstSeg(desc, ret.bm[1])
           IN  Len(ret.buf) = CompositeLength(desc, k, ChainEnd(desc, k))

\* what eflr() may return on the bytes catrecord assembles for bookmark b
Standalone(b) ==
    UNION { IF c.st = "ok" THEN eflr_outcomes(c.buf)
            ELSE {[st |-> c.st, rec |-> <<>>]} :
            c \in cat_outcomes(catrecord(bytes, b.pos, b.residual)) }

\* C4: for every bookmark of an EFLR chain, File::parse_eflr(B) returns the
\* same set name, template, objects and invariants as parse_eflr applied to
\* assemble(B), and fails with the same error kind when either fails.
C4_ParseEquivalence ==
    (ret.op = "eflr" /\ Len(ret.bm) = 1 /\ open)
        => (ret.bm[1].isexplicit = 1
              => \A o \in Standalone(ret.bm[1]) :
                    o.st = ret.st /\ o.rec = ret.rec)

\* C9: when the file ends before the last segment of a chain is passed,
\* index_next returns no bookmark and assemble returns no buffer.
C9_TruncationFails ==
    (ret.op \in {"mark", "getrecord"} /\ ret.st = "ok") => pos <= Len(bytes)

\* C10: when index_next reads a segment header whose length exceeds the
\* residual of the open visible record, it fails and returns no bookmark.
C10_UnderflowFails ==
    (ret.op = "mark" /\ ret.low < 0) => (ret.st # "ok" /\ ret.bm = <<>>)


(***************************************************************************)
(* eflr() on its own, one component per step, over payloads put together   *)
(* from components.  The bytes behind the payload come into being as the   *)
(* parser reads them: a read past the memory image either faults or finds  *)
(* some byte there.                                                        *)
(***************************************************************************)
\* SET; SET with type "T" and name "N"
Heads == { <<224>>, <<248, 1, 84, 1, 78>> }

\* ATTRIB "A" with the defaults
TmplA == <<48, 1, 65>>
\* ATTRIB "B", reprc USHORT, value 7
TmplB == <<53, 1, 66, 15, 7>>
\* INVATR "I", reprc USHORT, value 9
TmplI == <<85, 1, 73, 15, 9>>

Templates == { <<>>, TmplA, TmplA \o TmplB, TmplA \o TmplI }

\* OBJECT "X" and OBJECT "Y" (origin 1, copy 0); ABSATR; ATTRIB with the
\* value "V"; ATTRIB with no field
ItemKinds == { <<112, 1, 0, 1, 88>>, <<112, 1, 0, 1, 89>>, <<0>>, <<33, 1, 86>>, <<32>> }

RECURSIVE Flatten(_)
Flatten(ss) == IF ss = <<>> THEN <<>> ELSE Head(ss) \o Flatten(Tail(ss))

ItemSeqs == UNION { [1..n -> ItemKinds] : n \in 0..MaxItems }

Payloads ==
    { SubSeq(h \o t \o Flatten(is), 1, Len(h \o t \o Flatten(is)) - k) :
        h \in Heads, t \in Templates, is \in ItemSeqs, k \in 0..MaxTrunc }

\* first components of every other role: ABSATR, ATTRIB, INVATR, OBJECT,
\* RESERV, RDSET, and RSET with type "T" and name "N"
RoleHeads == { <<0>>, <<32>>, <<64>>, <<96>>, <<128>>, <<160>>, <<216, 1, 84, 1, 78>> }

\* components that are no template attribute: ABSATR, ABSATR labelled "Z",
\* RESERV, RDSET, RSET, SET
BadComponents == { <<0>>, <<16, 1, 90>>, <<128>>, <<160>>, <<192>>, <<224>> }

\* templates that end in a component of another role; one of INVATR "I",
\* ATTRIB "A", INVATR "J", ATTRIB "B"; and ATTRIB "V" with the one IDENT
\* "X", ATTRIB "W" with count 2 and the IDENTs "X" and "Y", ATTRIB "C"
\* with count 2, reprc USHORT and 7, 8, ATTRIB "D" with count 0; ATTRIB "U"
\* with a value of count 0 of the code 99, which is no representation
\* code, and the same with count 1 and with count 2; ATTRIB "R" with the
\* code 99 and no value; INVATR "K" with a value of count 0 of the code 0
MoreTemplates ==
    { TmplA \o b : b \in BadComponents }
      \cup { TmplI \o TmplA \o <<80, 1, 74>> \o TmplB,
             <<49, 1, 86, 1, 88>> \o <<57, 1, 87, 2, 1, 88, 1, 89>>,
             <<61, 1, 67, 2, 15, 7, 8>> \o <<57, 1, 68, 0>>,
             <<61, 1, 85, 0, 99>>, <<61, 1, 85, 1, 99, 5>>, <<61, 1, 85, 2, 99, 5, 6>>,
             <<52, 1, 82, 99>>, <<93, 1, 75, 0, 0>> }

\* no object; OBJECT "X"; OBJECT "X" with an ATTRIB of count 2 and the
\* IDENTs "V" and "W"; OBJECT "X" with an ATTRIB labelled "L" of value "V"
\* and an OBJECT "Y" behind it; OBJECT "X" with an ATTRIB labelled "L" of
\* count 2, reprc USHORT and 7, 8; OBJECT "X" with an ATTRIB of value "V";
\* OBJECT "X" with an ATTRIB of count 0 and a value; OBJECT "X" with an
\* ATTRIB of value "V" and OBJECT "Y" with an ATTRIB of no field; OBJECT
\* "X" with an ATTRIB of count 2 and OBJECT "Y" with an ATTRIB that has a
\* value and no count, followed by the IDENTs "X" and "Y"
MoreItems ==
    { <<>>, <<112, 1, 0, 1, 88>>, <<112, 1, 0, 1, 88>> \o <<41, 2, 1, 86, 1, 87>>,
      <<112, 1, 0, 1, 88>> \o <<49, 1, 76, 1, 86>> \o <<112, 1, 0, 1, 89>>,
      <<112, 1, 0, 1, 88>> \o <<61, 1, 76, 2, 15, 7, 8>>,
      <<112, 1, 0, 1, 88>> \o <<33, 1, 86>>,
      <<112, 1, 0, 1, 88>> \o <<41, 0>>,
      <<112, 1, 0, 1, 88>> \o <<33, 1, 86>> \o <<112, 1, 0, 1, 89>> \o <<32>>,
      <<112, 1, 0, 1, 88>> \o <<41, 2, 1, 86, 1, 87>>
          \o <<112, 1, 0, 1, 89>> \o <<33, 1, 88, 1, 89>> }

\* payloads for the role checks and for the values of a given count
MorePayloads ==
    { h \o t : h \in RoleHeads, t \in {<<>>, TmplA} }
      \cup { <<224>> \o t \o o : t \in MoreTemplates, o \in MoreItems }

InitEflr ==
    /\ desc = [segs |-> <<>>, starts |-> {}, mal |-> [cut |-> 0, short |-> 0]]
    /\ bytes = <<>>
    /\ open = FALSE
    /\ pos = 0
    /\ phase = "none"
    /\ residual = 0
    /\ marks = <<>>
    /\ traversed = 0
    /\ ret = Ret("none", "ok")
    /\ cat \in Payloads \cup MorePayloads
    /\ junk = <<>>
    /\ ps = ParserStart

\* the parser is inside eflr()
Parsing == ps.phase \in {"set", "template", "objects", "row"}

\* the next step needs a byte that is not in the memory image yet
Starved == Parsing /\ step(ps, cat \o junk, Len(cat)).err = "fault"

\* the set component with its type and name, when the image holds them
eflr_set ==
    /\ ps.phase = "set"
    /\ \E q \in {set_step(ps, cat \o junk)} : q.err # "fault" /\ ps' = q
    /\ UNCHANGED <<cat, junk>>
    /\ UNCHANGED fileVars

\* one component of the template
eflr_template ==
    /\ ps.phase = "template"
    /\ \E q \in {template_step(ps, cat \o junk)} : q.err # "fault" /\ ps' = q
    /\ UNCHANGED <<cat, junk>>
    /\ UNCHANGED fileVars

\* the OBJECT component that opens a row, or the end of the record
eflr_object ==
    /\ ps.phase = "objects"
    /\ \E q \in {object_step(ps, cat \o junk, Len(cat))} : q.err # "fault" /\ ps' = q
    /\ UNCHANGED <<cat, junk>>
    /\ UNCHANGED fileVars

\* one column of the row, or the end of the row
eflr_column ==
    /\ ps.phase = "row"
    /\ \E q \in {row_step(ps, cat \o junk, Len(cat))} : q.err # "fault" /\ ps' = q
    /\ UNCHANGED <<cat, junk>>
    /\ UNCHANGED fileVars

\* the read past the image finds a byte
OverRead ==
    /\ Starved
    /\ Len(junk) < MaxJunk
    /\ \E b \in JunkBytes : junk' = Append(junk, b)
    /\ ps' = [ps EXCEPT !.maxread = Len(cat) + Len(junk) + 1]
    /\ cat' = cat
    /\ UNCHANGED fileVars

\* the read past the image faults
Crash ==
    /\ Starved
    /\ ps' = [ps EXCEPT !.phase = "crashed", !.maxread = Len(cat) + Len(junk) + 1]
    /\ UNCHANGED <<cat, junk>>
    /\ UNCHANGED fileVars

NextEflr == eflr_set \/ eflr_template \/ eflr_object \/ eflr_column \/ OverRead \/ Crash

SpecEflr == InitEflr /\ [][NextEflr]_vars

(***************************************************************************)
(* file::parse_elfr of ext.cpp, the second source of the module `core`:    *)
(* its set component and its template, one component per step.  It reads   *)
(* the assembled record as eflr() does and differs from it in the roles it *)
(* lets through, in what its array() returns and in its object loop: a     *)
(* label in an object attribute throws, and the row of an object is the    *)
(* py::list templ itself (`auto row = templ` copies the handle), so the    *)
(* invariants appended to a row are appended to templ.                     *)
(***************************************************************************)
\* set_attributes of ext.cpp: the role must be SET
ext_set_attributes(p, mem, d) ==
    IF ~d.ok THEN NeedMore(p)
    ELSE IF dlis_component(d.v[1]) # DLIS_ROLE_SET
    THEN Throw(p, "ExpectedSet", d.cur, d.cur)
    ELSE set_fields(p, mem, dlis_component_set(d.v[1]),
                    set_type(p, mem, dlis_component_set(d.v[1]), d.cur))

\* the fixed-width codes array() of ext.cpp decodes: FSINGL, UNORM, DTIME,
\* STATUS
ExtFixedCodes == {2, 16, 21, 26}

\* one element of array() of ext.cpp; for a DTIME the string "date-time"
\* is appended and the 8 bytes are skipped
ext_element(mem, cur, reprc) ==
    CASE reprc = DLIS_UVARI -> uvari(mem, cur)
      [] reprc = DLIS_IDENT -> ident(mem, cur)
      [] reprc = DLIS_ASCII -> ascii(mem, cur)
      [] reprc = 21 -> [raw(mem, cur, 8) EXCEPT !.v = "date-time"]
      [] OTHER -> raw(mem, cur, FixedWidth(reprc))

RECURSIVE ext_arrayloop(_, _, _, _, _)
ext_arrayloop(mem, cur, count, reprc, l) ==
    IF count <= 0 THEN [st |-> "ok", v |-> l, cur |-> cur, list |-> TRUE]
    ELSE IF reprc \notin {DLIS_UVARI, DLIS_IDENT, DLIS_ASCII} \cup ExtFixedCodes
    THEN [st |-> "UnknownReprc", v |-> <<>>, cur |-> cur, list |-> TRUE]
    ELSE LET e == ext_element(mem, cur, reprc)
         IN  IF ~e.ok THEN [st |-> "fault", v |-> <<>>, cur |-> e.cur, list |-> TRUE]
             ELSE ext_arrayloop(mem, e.cur, count - 1, reprc,
                                Append(l, [reprc |-> reprc, v |-> e.v]))

\* array of ext.cpp: if( count == 1 ) return l[ 0 ]; return l;
ext_array(mem, cur, count, reprc) ==
    LET a == ext_arrayloop(mem, cur, count, reprc, <<>>)
    IN  IF a.st = "ok" /\ count = 1 THEN [a EXCEPT !.v = a.v[1], !.list = FALSE]
        ELSE a

\* the fields of a template entry, the value by array() of ext.cpp
ext_attrfields(mem, cur, f, col) ==
    LET s == units_field(mem,
                 reprc_field(mem,
                     count_field(mem,
                         label_field(mem, [st |-> "ok", cur |-> cur, col |-> col], f, TRUE),
                         f),
                     f),
                 f)
    IN  IF f.value = 0 \/ s.st # "ok" THEN s
        ELSE value_put(s, ext_array(mem, s.cur, s.col.count, s.col.reprc))

\* the role switch of the template loop: RESERV and the set roles throw,
\* every other role that is not OBJECT goes on as an entry; the entry is
\* appended to invariant for INVATR and to templ otherwise
ext_template_component(p, mem, d, role, flags) ==
    IF role = DLIS_ROLE_OBJECT
    THEN [p EXCEPT !.phase = "objects", !.maxread = Max(@, d.cur), !.decl = p.heap]
    ELSE IF role \in {DLIS_ROLE_RESERV, DLIS_ROLE_RDSET, DLIS_ROLE_RSET, DLIS_ROLE_SET}
    THEN Throw(p, "ExpectedAttribute", p.cur, d.cur)
    ELSE IF flags.label = 0 THEN Throw(p, "MissingLabel", d.cur, d.cur)
    ELSE template_put(p, IF role = DLIS_ROLE_INVATR THEN DLIS_ROLE_INVATR
                         ELSE DLIS_ROLE_ATTRIB,
                      ext_attrfields(mem, d.cur, flags, DefaultColumn))

\* one turn of the template loop of parse_elfr
ext_template_step(p, mem) ==
    LET d == raw(mem, p.cur, 1)
    IN  IF ~d.ok THEN NeedMore(p)
        ELSE ext_template_component(p, mem, d, dlis_component(d.v[1]),
                                    dlis_component_attrib(d.v[1]))

\* for( auto& inv : invariant ) row.append( inv ); objects[...] = row:
\* row is templ, which grows by the invariants, and every key of the table
\* holds that one list
ext_row_end(p, peeked) ==
    [p EXCEPT !.phase = "objects", !.maxread = Max(@, peeked),
              !.attribute = p.row \o p.invariant,
              !.objects = [i \in 1..Len(StoreRow(@, [name |-> p.oname])) |->
                              [name |-> StoreRow(p.objects, [name |-> p.oname])[i].name,
                               row |-> p.row \o p.invariant]],
              !.row = <<>>, !.col = 0, !.oname = <<>>]

\* one component of a row: ABSATR clears the value, an ATTRIB with a label
\* throws, any other ATTRIB writes its flagged fields onto the column
ext_row_component(p, mem, d, role, flags, ref) ==
    IF role = DLIS_ROLE_OBJECT THEN ext_row_end(p, d.cur)
    ELSE IF role \notin {DLIS_ROLE_ATTRIB, DLIS_ROLE_ABSATR}
    THEN Throw(p, "ExpectedAttribute", p.cur, d.cur)
    ELSE IF role = DLIS_ROLE_ABSATR
    THEN [p EXCEPT !.cur = d.cur, !.maxread = Max(@, d.cur), !.col = @ + 1,
                   !.heap[ref].value = <<>>]
    ELSE IF flags.label = 1 THEN Throw(p, "UnexpectedLabel", d.cur, d.cur)
    ELSE row_put(p, ref, flags, ext_attrfields(mem, d.cur, flags, p.heap[ref]))

\* one step of parse_elfr: the set component, a turn of the template loop,
\* the head of an object (or the end of the record, where the invariants
\* are appended to templ once more), a turn of the column loop
ext_step(p, mem, end) ==
    CASE p.phase = "set" -> ext_set_attributes(p, mem, raw(mem, p.cur, 1))
      [] p.phase = "template" -> ext_template_step(p, mem)
      [] p.phase = "objects" ->
            IF p.cur = end
            THEN [p EXCEPT !.phase = "done",
                           !.attribute = @ \o p.invariant,
                           !.objects = [i \in 1..Len(@) |->
                                           [@[i] EXCEPT !.row = p.attribute \o p.invariant]]]
            ELSE object_descriptor(p, mem, raw(mem, p.cur, 1))
      [] p.phase = "row" ->
            IF p.col > Len(p.row) \/ p.cur = end THEN ext_row_end(p, p.cur)
            ELSE The({ IF ~d.ok THEN NeedMore(p)
                       ELSE ext_row_component(p, mem, d, dlis_component(d.v[1]),
                                              dlis_component_attrib(d.v[1]),
                                              p.row[p.col])
                       : d \in {raw(mem, p.cur, 1)} })
      [] OTHER -> p

\* the objects of those records: none; OBJECT "X"; OBJECT "X" with an
\* ATTRIB of value "V"; OBJECT "X" with an ATTRIB labelled "L" of value
\* "V"; OBJECT "X" with an ABSATR and OBJECT "Y"; OBJECT "X" twice
ExtObjects ==
    { <<>>, <<112, 1, 0, 1, 88>>,
      <<112, 1, 0, 1, 88>> \o <<33, 1, 86>>,
      <<112, 1, 0, 1, 88>> \o <<49, 1, 76, 1, 86>>,
      <<112, 1, 0, 1, 88>> \o <<0>> \o <<112, 1, 0, 1, 89>>,
      <<112, 1, 0, 1, 88>> \o <<112, 1, 0, 1, 88>> }

\* the records parse_elfr is given: every first component, every template
\* above, the objects above, also cut short
ExtPayloads ==
    { SubSeq(h \o t \o o, 1, Len(h \o t \o o) - k) :
        h \in Heads \cup RoleHeads, t \in Templates \cup MoreTemplates,
        o \in ExtObjects, k \in 0..MaxTrunc }

InitExt ==
    /\ desc = [segs |-> <<>>, starts |-> {}, mal |-> [cut |-> 0, short |-> 0]]
    /\ bytes = <<>>
    /\ open = FALSE
    /\ pos = 0
    /\ phase = "none"
    /\ residual = 0
    /\ marks = <<>>
    /\ traversed = 0
    /\ ret = Ret("none", "ok")
    /\ cat \in ExtPayloads
    /\ junk = <<>>
    /\ ps = ParserStart

\* the next step of parse_elfr needs a byte that is not in the image yet
ExtStarved ==
    Parsing /\ ext_step(ps, cat \o junk, Len(cat)).err = "fault"

\* the set component with its type and name
parse_elfr_set ==
    /\ ps.phase = "set"
    /\ \E q \in {ext_step(ps, cat \o junk, Len(cat))} : q.err # "fault" /\ ps' = q
    /\ UNCHANGED <<cat, junk>>
    /\ UNCHANGED fileVars

\* one component of the template
parse_elfr_template ==
    /\ ps.phase = "template"
    /\ \E q \in {ext_step(ps, cat \o junk, Len(cat))} : q.err # "fault" /\ ps' = q
    /\ UNCHANGED <<cat, junk>>
    /\ UNCHANGED fileVars

\* the OBJECT component that opens a row, or the end of the record
parse_elfr_object ==
    /\ ps.phase = "objects"
    /\ \E q \in {ext_step(ps, cat \o junk, Len(cat))} : q.err # "fault" /\ ps' = q
    /\ UNCHANGED <<cat, junk>>
    /\ UNCHANGED fileVars

\* one column of the row, or the end of the row
parse_elfr_column ==
    /\ ps.phase = "row"
    /\ \E q \in {ext_step(ps, cat \o junk, Len(cat))} : q.err # "fault" /\ ps' = q
    /\ UNCHANGED <<cat, junk>>
    /\ UNCHANGED fileVars

\* the read past the image finds a byte
ExtOverRead ==
    /\ ExtStarved
    /\ Len(junk) < MaxJunk
    /\ \E b \in JunkBytes : junk' = Append(junk, b)
    /\ ps' = [ps EXCEPT !.maxread = Len(cat) + Len(junk) + 1]
    /\ cat' = cat
    /\ UNCHANGED fileVars

\* the read past the image faults
ExtCrash ==
    /\ ExtStarved
    /\ ps' = [ps EXCEPT !.phase = "crashed", !.maxread = Len(cat) + Len(junk) + 1]
    /\ UNCHANGED <<cat, junk>>
    /\ UNCHANGED fileVars

NextExt ==
    \/ parse_elfr_set \/ parse_elfr_template \/ parse_elfr_object \/ parse_elfr_column
    \/ ExtOverRead \/ ExtCrash

SpecExt == InitExt /\ [][NextExt]_vars


(***************************************************************************)
(* Properties of the parser                                                *)
(***************************************************************************)

\* the handles of the columns a row must show: the template's, then the
\* invariants'
RowPlan == ps.attribute \o ps.invariant

\* C5: every object row of a record has exactly |template| + |invariants|
\* columns, the template columns in template order and then the invariant
\* columns in theirs, whatever number of components the object carried.
C5_RowShape ==
    \A i \in 1..Len(ps.objects) :
        /\ Len(ps.objects[i].row) = Len(ps.attribute) + Len(ps.invariant)
        /\ \A j \in 1..Len(ps.objects[i].row) :
              /\ j <= Len(RowPlan)
              /\ ps.heap[ps.objects[i].row[j]].label = ps.decl[RowPlan[j]].label

\* C5, the case: a finished record over a template with an invariant, with
\* an object that carried a component and one that carried none
C5_Witness ==
    /\ ps.phase = "done"
    /\ Len(ps.attribute) = 1
    /\ Len(ps.invariant) = 1
    /\ Len(ps.objects) = 2
    /\ ps.objects[1].given = 1
    /\ ps.objects[2].given = 0

\* C6: each row owns its columns: a component of one object changes that
\* column of that row only; the template columns of the record and the
\* columns of every other row keep their values.
C6_RowsOwnColumns ==
    (ps.phase = "done")
        => /\ \A j \in 1..Len(ps.attribute) :
                 ps.heap[ps.attribute[j]] = ps.decl[ps.attribute[j]]
           /\ \A i \in 1..Len(ps.objects) :
                 Columns(ps, ps.objects[i].row) = ps.objects[i].shown

\* C7: in the row of an object that carried fewer components than the
\* template has columns, every column without a component has the count,
\* reprc, units and value the template declared, wherever the object stands
\* among the objects of the record.
C7_MissingKeepDefaults ==
    (ps.phase = "done")
        => \A i \in 1..Len(ps.objects) :
              \A j \in (ps.objects[i].given + 1)..Len(ps.attribute) :
                  ps.heap[ps.objects[i].row[j]] = ps.decl[ps.attribute[j]]

\* C8: the parser reads no byte at or past the end of the payload and its
\* cursor never passes the end; a payload that ends inside a component
\* makes the parse fail with an error and return no record.
C8_NoReadPastEnd ==
    /\ ps.maxread <= Len(cat)
    /\ ps.cur <= Len(cat)
    /\ ps.phase # "crashed"

(***************************************************************************)
(* Properties of chains, of the assembler and of the file handle           *)
(***************************************************************************)

\* the segments of the chain that starts at segment k
Chain(d, k) == k..ChainEnd(d, k)

\* the explicit-formatting bit of a segment
IsEflr(seg) == Bit(seg.attrs, 128)

\* C11: index_next takes is_eflr from the first segment of the chain only:
\* every bookmark it returns carries the first segment's flag, and a chain
\* with a later segment whose flag differs is not indexed (ChainMismatch).
C11_FlagOfFirstSegment ==
    (ret.op = "mark" /\ ret.st = "ok" /\ Accounted(desc, ret.bm))
        => LET k == FirstSeg(desc, ret.bm[1])
           IN  /\ ret.bm[1].isexplicit = IsEflr(desc.segs[k])
               /\ \A j \in Chain(desc, k) : IsEflr(desc.segs[j]) = IsEflr(desc.segs[k])

\* the encryption bit of a segment
IsEncrypted(seg) == Bit(seg.attrs, 16)

\* C12: assemble and File::parse_eflr on a chain that holds a segment with
\* is_encrypted set fail (Encrypted): no buffer is returned for it and its
\* bytes are never handed to the EFLR parser.
C12_EncryptedRefused ==
    (ret.op \in {"getrecord", "eflr"} /\ open /\ Accounted(desc, ret.bm))
        => LET k == FirstSeg(desc, ret.bm[1])
           IN  (\E j \in Chain(desc, k) : IsEncrypted(desc.segs[j]) = 1)
                   => ret.st # "ok" /\ ret.buf = <<>> /\ ret.rec = <<>>

\* trailing length, checksum and padding are all set on the segment
AllThree(seg) == Bit(seg.attrs, 1) = 1 /\ Bit(seg.attrs, 2) = 1 /\ Bit(seg.attrs, 4) = 1

\* the bytes of a body of L bytes in front of its last 4 + P, where P is
\* the byte that is last once 4 bytes are dropped
KeptOfAllThree(body) ==
    LET L == Len(body)
        P == body[L - 4]
    IN  SubSeq(body, 1, L - 4 - P)

\* the body holds its own suffix: a pad count and P + 4 bytes at least
HoldsSuffix(body) == Len(body) >= 5 /\ body[Len(body) - 4] <= Len(body) - 4

\* C13: assemble strips the tail of a segment in the order trailing length,
\* checksum, padding: where all three flags are set on the last segment of
\* a chain, with a body of L bytes, the buffer ends with exactly the first
\* L - 4 - P bytes of that body, P being the byte that is last after 4
\* bytes are dropped; for a chain of that one segment the buffer is those
\* bytes.
C13_StripOrder ==
    (ret.op = "getrecord" /\ ret.st = "ok" /\ Accounted(desc, ret.bm))
        => LET k == FirstSeg(desc, ret.bm[1])
               e == ChainEnd(desc, k)
               body == desc.segs[e].body
               kept == KeptOfAllThree(body)
               n == Len(ret.buf)
           IN  (AllThree(desc.segs[e]) /\ HoldsSuffix(body))
                  => /\ n >= Len(kept)
                     /\ SubSeq(ret.buf, n - Len(kept) + 1, n) = kept
                     /\ (k = e => ret.buf = kept)

C13_Witness ==
    /\ ret.op = "getrecord" /\ ret.st = "ok" /\ Accounted(desc, ret.bm)
    /\ Len(desc.segs) = 1 /\ AllThree(desc.segs[1]) /\ HoldsSuffix(desc.segs[1].body)
    /\ desc.segs[1].body[Len(desc.segs[1].body) - 4] = 2
    /\ ret.buf = <<9>>

\* the body of a segment without its own suffix: what is left of it once
\* its trailing length, its checksum and its padding are dropped, nothing
\* where the body is shorter than the suffix its flags announce
OwnStripped(seg) ==
    LET n == Len(seg.body) - 2 * Bit(seg.attrs, 2) - 2 * Bit(seg.attrs, 4)
    IN  SubSeq(seg.body, 1, Max(0, n - PadCount(seg)))

RECURSIVE ConcatOwn(_, _, _)
ConcatOwn(d, k, last) ==
    OwnStripped(d.segs[k]) \o (IF k >= last THEN <<>> ELSE ConcatOwn(d, k + 1, last))

\* the assembler's behaviour on bookmark b is defined
Defined(b) == catrecord(bytes, b.pos, b.residual).st # "UB"

\* C14: the buffer assemble returns is, in chain order, the concatenation
\* of each segment's body with that segment's own suffix stripped, with no
\* header and no label byte in it, also where a visible record ends between
\* two segments of the chain.
C14_ConcatenationOfBodies ==
    (ret.op = "getrecord" /\ ret.st = "ok" /\ Accounted(desc, ret.bm) /\ Defined(ret.bm[1]))
        => LET k == FirstSeg(desc, ret.bm[1])
           IN  ret.buf = ConcatOwn(desc, k, ChainEnd(desc, k))

\* every segment of the chain from k holds the suffix its flags announce
ChainHoldsSuffixes(d, k) ==
    \A j \in Chain(d, k) :
        LET n == Len(d.segs[j].body) - 2 * Bit(d.segs[j].attrs, 2)
                     - 2 * Bit(d.segs[j].attrs, 4)
        IN  n >= Bit(d.segs[j].attrs, 1) /\ PadCount(d.segs[j]) <= n

\* the same statement for the chains whose segments all hold their suffix:
\* there the buffer is the concatenation
C14_WhereSuffixesFit ==
    (ret.op = "getrecord" /\ ret.st = "ok" /\ Accounted(desc, ret.bm)
        /\ ChainHoldsSuffixes(desc, FirstSeg(desc, ret.bm[1])))
        => LET k == FirstSeg(desc, ret.bm[1])
           IN  ret.buf = ConcatOwn(desc, k, ChainEnd(desc, k))

\* the operations that need the stream
StreamOps == {"eof", "sul", "mark", "getrecord", "eflr"}

\* what a step on a closed file may be: a close that succeeds, or another
\* operation that fails with ValueError and returns nothing
StepOnClosed ==
    /\ ~open'
    /\ \/ ret' = Ret("close", "ok")
       \/ ret'.op \in StreamOps /\ ret' = Ret(ret'.op, "ValueError")
    /\ UNCHANGED <<pos, residual, marks, traversed>>

\* every operation can be called on the closed file, whatever was called
\* before; the two that take a bookmark need one the caller holds
CallableOnClosed ==
    /\ ENABLED close
    /\ ENABLED eof
    /\ ENABLED storage_unit_label
    /\ ENABLED markrecord
    /\ marks # <<>> => ENABLED getrecord /\ ENABLED file_eflr

\* C15: after close every operation on the file (eof, sul, index_next,
\* assemble, parse_eflr) fails with Closed, in any order and any number of
\* times, and a later close succeeds and leaves the file closed.
C15_ClosedStaysClosed ==
    /\ [][~open => StepOnClosed]_vars
    /\ [](~open => CallableOnClosed)

C15_Witness ==
    /\ ~open
    /\ ret = Ret("getrecord", "ValueError")
    /\ phase = "indexed"
    /\ Len(marks) = 2

\* two calls of getrecord in a row on one bookmark of the open file
SameBookmarkAgain ==
    /\ ret.op = "getrecord" /\ ret'.op = "getrecord"
    /\ open /\ open'
    /\ ret'.bm = ret.bm

\* C16: a bookmark stays valid across other operations: on the open,
\* untruncated file assemble(B) returns the same bytes every time it is
\* called, whatever stream position and residual the calls made in between
\* have left.
C16_SameBytesEveryTime ==
    [][SameBookmarkAgain => (ret'.st = ret.st /\ ret'.buf = ret.buf)]_vars

\* the same statement for the bookmarks on which the assembler's behaviour
\* is defined: whatever was called before, the call returns what catrecord
\* computes from the bookmark's own position and residual
C16_WhereDefined ==
    (ret.op = "getrecord" /\ open /\ Len(ret.bm) = 1 /\ Defined(ret.bm[1]))
        => LET r == catrecord(bytes, ret.bm[1].pos, ret.bm[1].residual)
           IN  ret.st = r.st /\ ret.buf = r.cat

(***************************************************************************)
(* Properties of the set component, of the template and of the values      *)
(***************************************************************************)

\* the role of the first component of the record
FirstRole == dlis_component((cat \o junk)[1])

SetRoles == {DLIS_ROLE_RDSET, DLIS_ROLE_RSET, DLIS_ROLE_SET}

\* the parse is past its first component
PastSet == ps.phase \in {"template", "objects", "row", "done", "error"}

\* C17: parse_eflr accepts a first component of role SET, RDSET or RSET,
\* and for every other role of the first component it fails with
\* ExpectedSet before it reads any template component.
C17_SetRolesOnly ==
    PastSet
        => IF FirstRole \in SetRoles
           THEN ps.err # "ExpectedSet"
           ELSE /\ ps.phase = "error" /\ ps.err = "ExpectedSet"
                /\ ps.cur = 1 /\ ps.maxread = 1
                /\ ps.heap = <<>> /\ ps.attribute = <<>> /\ ps.invariant = <<>>

\* a turn of the template loop that decoded a component
TemplateTurn ==
    ps.phase = "template" /\ ps' # ps /\ ps'.phase # "crashed" /\ junk' = junk

\* the role of the component the template loop is at
TemplateRole == dlis_component((cat \o junk)[ps.cur + 1])

\* the column appended to the heap by the turn carries the label that
\* follows the descriptor in the payload
LabelFromPayload ==
    LET mem == cat \o junk
        n == mem[ps.cur + 2]
    IN  /\ Len(ps'.heap) = Len(ps.heap) + 1
        /\ ps'.heap[Len(ps'.heap)].label = SubSeq(mem, ps.cur + 3, ps.cur + 2 + n)

\* the turn appended its column to list `to` and left `other` alone
AppendedTo(to, other) ==
    /\ to[2] = Append(to[1], Len(ps.heap) + 1)
    /\ other[2] = other[1]
    /\ LabelFromPayload

TemplateListsKept == ps'.attribute = ps.attribute /\ ps'.invariant = ps.invariant

\* C18: in the template every component before the first OBJECT must be
\* ATTRIB or INVATR: ABSATR, RESERV, SET, RDSET or RSET there fail the parse
\* with ExpectedAttribute; an ATTRIB is appended to the template and an
\* INVATR to the invariants, each behind the entries the list holds.
C18_TemplateRoles ==
    [][TemplateTurn =>
        CASE TemplateRole = DLIS_ROLE_OBJECT ->
                ps'.phase = "objects" /\ TemplateListsKept
          [] TemplateRole = DLIS_ROLE_ATTRIB ->
                IF ps'.phase = "error"
                THEN ps'.err # "ExpectedAttribute" /\ TemplateListsKept
                ELSE /\ ps'.phase = "template"
                     /\ AppendedTo(<<ps.attribute, ps'.attribute>>,
                                   <<ps.invariant, ps'.invariant>>)
          [] TemplateRole = DLIS_ROLE_INVATR ->
                IF ps'.phase = "error"
                THEN ps'.err # "ExpectedAttribute" /\ TemplateListsKept
                ELSE /\ ps'.phase = "template"
                     /\ AppendedTo(<<ps.invariant, ps'.invariant>>,
                                   <<ps.attribute, ps'.attribute>>)
          [] OTHER ->
                ps'.phase = "error" /\ ps'.err = "ExpectedAttribute" /\ TemplateListsKept
    ]_vars

\* the payloads that hold a set component and one template component or
\* more, and end there
ZeroObjectPayloads == { h \o t : h \in Heads, t \in Templates \ {<<>>} }

\* the parse has ended: a record, an exception, or a crash
Ended == ps.phase \in {"done", "error", "crashed"}

\* C19: an EFLR payload that consists of a set header and template
\* components and then ends (zero objects) is parsed successfully: the
\* parse reaches DONE and returns that template and an empty object table.
C19_ZeroObjects ==
    (cat \in ZeroObjectPayloads /\ Ended)
        => /\ ps.phase = "done"
           /\ ps.objects = <<>>
           /\ Len(ps.attribute) + Len(ps.invariant) >= 1

\* a turn of the template loop or of a row that put a value into a column:
\* the column is new, or its value is not the one it held
ValueDecoded(i) ==
    /\ ps'.heap[i].value # <<>>
    /\ i <= Len(ps.heap) => ps'.heap[i].value # ps.heap[i].value

\* the value of column c is a list of exactly its count of elements, each
\* of its representation code; elements of one byte are the bytes the
\* payload ends with at the cursor, in payload order
ListOfCount(c, mem, cur) ==
    LET val == c.value[1]
    IN  /\ val.list
        /\ Len(val.v) = c.count
        /\ \A k \in 1..Len(val.v) : val.v[k].reprc = c.reprc
        /\ c.reprc = 15 =>
              [k \in 1..Len(val.v) |-> val.v[k].v[1]] = SubSeq(mem, cur - c.count + 1, cur)

\* a step of the parser that is no crash and no over-read
ParserStep == ps' # ps /\ ps'.phase # "crashed" /\ junk' = junk

\* C20: a value decoded for a column with count n and representation code
\* reprc is an ordered sequence of exactly n decoded primitives of that
\* code, for every n including 1 (a one-element sequence, not a bare
\* scalar), in the template and in an object's row.
C20_ValueIsSequence ==
    [][ParserStep =>
          \A i \in 1..Len(ps'.heap) :
              ValueDecoded(i) => ListOfCount(ps'.heap[i], cat \o junk, ps'.cur)]_vars

(***************************************************************************)
(* Properties of the objects and of their rows                             *)
(***************************************************************************)

\* the column loop stands at a component that lies in the payload
AtComponent ==
    /\ ps.phase = "row"
    /\ ps.col <= Len(ps.row)
    /\ ps.cur < Len(cat)

\* the descriptor the parser stands at
Descriptor == (cat \o junk)[ps.cur + 1]

\* the column loop stands at an ATTRIB component with the label flag whose
\* IDENT lies in the payload, and takes its turn
LabelledTurn ==
    /\ AtComponent
    /\ dlis_component(Descriptor) = DLIS_ROLE_ATTRIB
    /\ dlis_component_attrib(Descriptor).label = 1
    /\ ps.cur + 2 + cat[ps.cur + 2] <= Len(cat)
    /\ ParserStep

\* the memory image with the label flag of the component at the cursor
\* cleared and the IDENT behind it removed
Unlabelled ==
    LET mem == cat \o junk
    IN  SubSeq(mem, 1, ps.cur) \o <<Descriptor - 16>>
          \o SubSeq(mem, ps.cur + 3 + mem[ps.cur + 2], Len(mem))

\* two parser states agree in all but the cursor, the extent read and the
\* count of warnings
SameParse(p, q) ==
    [p EXCEPT !.cur = 0, !.maxread = 0, !.warnings = 0]
        = [q EXCEPT !.cur = 0, !.maxread = 0, !.warnings = 0]

\* C21: an ATTRIB component of an object that carries the label flag does
\* not abort the parse: one warning is emitted, the IDENT is consumed and
\* dropped, the other flagged fields are decoded from the bytes behind it,
\* and the parse goes on as it does on the payload without the flag and
\* without the IDENT.
C21_StrayLabelSkipped ==
    [][LabelledTurn =>
          /\ ps'.err # "UnexpectedLabel"
          /\ ps'.warnings = ps.warnings + 1
          /\ \E q \in {row_step(ps, Unlabelled, Len(cat) - 1 - cat[ps.cur + 2])} :
                /\ SameParse(ps', q)
                /\ ps'.cur = q.cur + 1 + cat[ps.cur + 2]
    ]_vars

\* the row of an object is stored under a key the table holds already
DuplicateStored ==
    /\ ps.phase = "row"
    /\ ps'.phase = "objects"
    /\ \E i \in 1..Len(ps.objects) : ps.objects[i].name = ps.oname

\* the table holds one row under the key of the object just stored, the
\* row of that object, and as many keys as before
LaterRowKept ==
    /\ Len(ps'.objects) = Len(ps.objects)
    /\ \A i \in 1..Len(ps'.objects) :
          ps'.objects[i].name = ps.oname
              => /\ ps'.objects[i].row = ps.row \o ps.invariant
                 /\ ps'.objects[i].given = ps.col - 1
                 /\ \A j \in 1..Len(ps'.objects) :
                       ps'.objects[j].name = ps.oname => j = i

\* C22: when two objects of one EFLR have the same OBNAME, the object table
\* holds one row under that key, the row of the later object, a warning is
\* emitted for the duplicate, and the parse does not fail.
C22_DuplicateOverwritesAndWarns ==
    [][DuplicateStored => LaterRowKept /\ ps'.warnings = ps.warnings + 1]_vars

\* the representation codes of the standard
StandardCodes == 1..27

\* C23: whenever a template or object attribute component has its value
\* flag set and the column's representation code is not one of the
\* standard codes, the parse fails with UnknownReprc and returns no record,
\* for every count of the column: no turn decodes a value, of any count,
\* for a column whose code is not a standard code.
C23_UnknownReprcFails ==
    [][ParserStep =>
          \A i \in 1..Len(ps'.heap) :
              ValueDecoded(i) => ps'.heap[i].reprc \in StandardCodes]_vars

\* the column loop stands at an ATTRIB component without a label, and the
\* turn writes its fields onto the column
AttribTurn ==
    /\ AtComponent
    /\ dlis_component(Descriptor) = DLIS_ROLE_ATTRIB
    /\ dlis_component_attrib(Descriptor).label = 0
    /\ ParserStep
    /\ ps'.phase = "row"

\* the column the turn is for, as the template declared it and as the row
\* shows it after the turn
Declared == ps.decl[ps.row[ps.col]]
Written == ps'.heap[ps.row[ps.col]]

\* the fields of the component at the cursor: the count is the byte behind
\* the descriptor, the reprc the byte behind the count
EffectiveFields(f) ==
    LET mem == cat \o junk
    IN  /\ Written.count = IF f.count = 1 THEN mem[ps.cur + 2] ELSE Declared.count
        /\ Written.reprc = IF f.reprc = 1 THEN mem[ps.cur + 2 + f.count]
                           ELSE Declared.reprc
        /\ f.units = 0 => Written.units = Declared.units
        /\ IF f.value = 0 THEN Written.value = Declared.value
           ELSE /\ Written.value # <<>>
                /\ Len(Written.value[1].v) = Written.count
                /\ \A k \in 1..Written.count :
                      Written.value[1].v[k].reprc = Written.reprc

\* C24: for an ATTRIB component inside an object the value is decoded with
\* the column's effective count and reprc: those given in the component
\* when their flags are set, otherwise those the template declared for the
\* column (count 1 and reprc IDENT when the template gave none); fields
\* whose flags are clear keep the template's values in that row.
C24_EffectiveCountAndReprc ==
    [][AttribTurn => EffectiveFields(dlis_component_attrib(Descriptor))]_vars

\* the object loop stands at the head of its turn, at or before the end of
\* the payload, and takes the turn
ObjectTurn == ps.phase = "objects" /\ ps.cur <= Len(cat) /\ ParserStep

\* the column loop has filled the last column of the row and ends
RowFilled == ps.phase = "row" /\ ps.col > Len(ps.row) /\ ParserStep

\* C25: an object followed by more ATTRIB or ABSATR components than the
\* template has columns makes the parse fail with ExpectedObject: once the
\* last column of a row is filled the row is stored without another read,
\* and the next component must be OBJECT or the payload must end; any other
\* component fails the parse and no record is returned.
C25_ExpectedObject ==
    [][/\ RowFilled => ps'.phase = "objects" /\ ps'.cur = ps.cur
       /\ ObjectTurn =>
             IF ps.cur = Len(cat) THEN ps'.phase = "done"
             ELSE IF dlis_component(Descriptor) = DLIS_ROLE_OBJECT
             THEN ps'.err # "ExpectedObject"
             ELSE /\ ps'.phase = "error"
                  /\ ps'.err = "ExpectedObject"
                  /\ Outcome(ps').rec = <<>>
    ]_vars

\* C25, the case: an object whose one column was filled by a component is
\* followed by an ATTRIB or ABSATR component, and the parse has failed on it
C25_Witness ==
    /\ ps.phase = "error"
    /\ ps.err = "ExpectedObject"
    /\ Len(ps.attribute) = 1
    /\ Len(ps.objects) = 1
    /\ ps.objects[1].given = 1
    /\ ps.cur <= Len(cat)
    /\ dlis_component(cat[ps.cur]) \in {DLIS_ROLE_ATTRIB, DLIS_ROLE_ABSATR}

(***************************************************************************)
(* Properties of the indexer and the assembler taken together              *)
(***************************************************************************)

\* C26: every call of index_next and of assemble terminates, by returning
\* or by failing, on every input file, including files whose segment
\* headers or visible record labels declare a length smaller than 4: no
\* call reads the same header twice with the same residual.
C26_CallsTerminate == phase # "hung" /\ ret.st # "hang"

\* a call of the assembler on a bookmark that lies at a segment of a file
\* whose headers and labels declare the true lengths
AssembledChain ==
    /\ ret.op = "getrecord"
    /\ open
    /\ Accounted(desc, ret.bm)
    /\ WellFormed(desc)

RECURSIVE KeepsEarlier(_, _, _, _)
\* segment k of the chain is processed on top of the buffer c: the
\* erasures stay inside the buffer and leave it no shorter than c, and so
\* for the segments behind it
KeepsEarlier(d, k, last, c) ==
    \E s \in {StripTail(c \o d.segs[k].body, dlis_segment_attributes(d.segs[k].attrs))} :
        /\ ~s.ub
        /\ Len(s.cat) >= Len(c)
        /\ k < last => KeepsEarlier(d, k + 1, last, s.cat)

\* C27: while assemble strips a segment's trailing length, checksum and
\* padding it removes only bytes of that segment's own body: after a
\* segment has been processed the buffer is at least as long as it was
\* before the segment was appended, for every pad count and body length;
\* no byte of an earlier segment is removed and nothing before the start
\* of the buffer is erased.
C27_StripsOwnBytesOnly ==
    AssembledChain
        => \E k \in {FirstSeg(desc, ret.bm[1])} :
              KeepsEarlier(desc, k, ChainEnd(desc, k), <<>>)

\* the indexer and the assembler agree on bookmark b: where the indexer
\* returns, the assembler does not fail on the framing, and where it
\* returns a buffer it leaves the stream at the indexer's position with
\* the indexer's residual
Mirrors(b) ==
    \E m \in {mark(bytes, b.pos, b.residual)} :
        \E c \in {catrecord(bytes, b.pos, b.residual)} :
            m.st = "ok"
                => /\ c.st \in {"ok", "UB"}
                   /\ c.st = "ok" => c.pos = m.pos /\ c.residual = m.residual

\* C28: the assembler mirrors the indexer: for every bookmark index_next
\* returned, assemble succeeds as far as the framing is concerned, passes
\* the same labels and segments, and leaves the stream at the same
\* position and with the same residual as that call of index_next.
C28_AssemblerMirrorsIndexer ==
    (ret.op = "getrecord" /\ open /\ Len(ret.bm) = 1)
        => /\ Mirrors(ret.bm[1])
           /\ ret.st \notin {"EOFError", "ValueError"}

====
